---- MODULE Spec2Model ----
(***************************************************************************)
(* Model of examples/summarization/run_summarization.py: the BertSum       *)
(* optimizer (two Adam stacks, one shared step counter), the batch         *)
(* assembler collate, the training loop train with its monitoring block,   *)
(* the evaluation loop evaluate, summarize, save_model_checkpoints, and     *)
(* main: one process from its arguments to its end, and the start-up of    *)
(* all processes of a launch around the barrier.                           *)
(*                                                                         *)
(* Real numbers.  A learning rate is a non-negative real.  It is kept as   *)
(* the exact fraction num/den of its SQUARE, so that x ** (-0.5) and       *)
(* x ** (-1.5) stay rational: (s ** -0.5)^2 = 1/s and                      *)
(* (s * w ** -1.5)^2 = s^2 / w^3.  Squaring is strictly monotone on the    *)
(* non-negative reals, so min and the comparisons are decided on squares.  *)
(***************************************************************************)
EXTENDS Integers, Sequences, FiniteSets, TLC

\* ------------------------------------------------------------------ bounds
\* main: most accelerators of the machine, largest --local_rank
MaxGpus == 2
MaxRank == 1
\* train: largest --logging_steps
MaxLog == 2
\* summarize: largest batch, most candidates the beam search returns for an
\* example, largest candidate length, lowest cumulative log-score (negated)
MaxBeamBatch == 2
MaxBeams == 2
MaxLength == 2
MaxScore == 2
\* start-up: most processes of a distributed run
MaxProcs == 3
\* largest warmup length an optimizer is constructed with
MaxWarmup == 3
\* largest base learning rate (in units of the smallest one)
MaxBase == 2

\* train: largest len(train_dataloader), gradient_accumulation_steps,
\* max_steps and num_train_epochs of a run
MaxBatches == 10
MaxGas == 2
MaxCap == 5
MaxEpochs == 2
\* train: the decoder's warmup length, 10000 steps in the source, scaled down
\* to keep the cubes of the schedule small
WarmupUnit == 1
\* largest evaluation dataset, and largest evaluation batch
MaxExamples == 4
MaxEvalBatch == 4
\* block_size handed to collate (512 in train and evaluate)
BlockSize == 4

\* the shared counter is followed up to ten times the longest warmup
StepHorizon == 10 * MaxWarmup

Stacks == {"encoder", "decoder"}

VARIABLES
    optimizer,   \* the BertSumOptimizer object: lr, warmup_steps, _step, current_learning_rates
    grad,        \* per stack: number of backward passes summed into the parameters' .grad
    call,        \* the last completed call on the optimizer and what it raised
    pc,          \* where train / evaluate stands
    exc,         \* the exception that ended the run, "none" while it runs
    samples,     \* the examples the data loader fetched for the batch in hand
    batch,       \* the six tensors collate returned for them
    args,        \* train: max_steps, gradient_accumulation_steps, num_train_epochs
    n_batches,   \* train: len(train_dataloader)
    t_total,     \* train: the total number of optimization steps it computes
    epoch,       \* train: epochs the epoch iterator has handed out
    step,        \* train: the index enumerate gives the batch in hand
    global_step, \* train: its count of optimizer steps
    eval_dataset,     \* evaluate: the dataset, a sequence of (story, summary) pairs
    eval_batch_size,  \* evaluate: args.eval_batch_size
    eval_pos,         \* evaluate: number of examples the data loader has handed out
    idx_summary,      \* evaluate: the running file index
    files,            \* evaluate: model_<i>.txt, as a function from i to its content
    env,         \* main: what the process finds: the accelerator, the output directory
    output_dir,  \* main: the entries of args.output_dir, "absent" when it does not exist
    response,    \* main: the answer read at the prompt, a sequence of characters
    save_calls,  \* main: number of calls of save_model_checkpoints
    work,        \* main: the stages the process has gone through
    tb_writer,   \* train: the summary writer and what was written to it
    procs,       \* startup of a distributed run: where each process stands
    beam         \* summarize: the result of the beam search in hand

optVars == <<optimizer, grad, call>>
evalVars == <<eval_dataset, eval_batch_size, eval_pos, idx_summary, files>>
trainVars == <<args, n_batches, t_total, epoch, step, global_step>>
mainVars == <<env, output_dir, response, save_calls, work>>
sideVars == <<procs, beam>>
notOptVars == <<pc, exc, samples, batch, args, n_batches, t_total, epoch, step,
               global_step, eval_dataset, eval_batch_size, eval_pos, idx_summary, files,
               env, output_dir, response, save_calls, work, tb_writer, procs, beam>>
vars == <<optimizer, grad, call, pc, exc, samples, batch,
          args, n_batches, t_total, epoch, step, global_step,
          eval_dataset, eval_batch_size, eval_pos, idx_summary, files,
          env, output_dir, response, save_calls, work, tb_writer, procs, beam>>

\* ------------------------------------------------------- rational helpers
Frac(n, d) == [num |-> n, den |-> d]
FracLeq(a, b) == a.num * b.den <= b.num * a.den
FracLess(a, b) == a.num * b.den < b.num * a.den
FracEq(a, b) == a.num * b.den = b.num * a.den
\* Python's min(a, b): the first argument unless the second is smaller
FracMin(a, b) == IF FracLess(b, a) THEN b ELSE a

\* --------------------------------------------------------- BertSumOptimizer
\* the attributes __init__ assigns on self
BertSumOptimizer_attributes ==
    {"encoder", "decoder", "lr", "warmup_steps", "optimizers", "_step",
     "current_learning_rates"}

\* __init__: the counter starts at 0, no rate has been computed yet
BertSumOptimizer_init(lr, warmup_steps) ==
    [lr |-> lr, warmup_steps |-> warmup_steps, _step |-> 0,
     current_learning_rates |-> [s \in {} |-> Frac(0, 1)]]

\* what a ZeroDivisionError leaves in place of a value
ZeroDivisionError == Frac(1, 0)

\* _update_rate with min replaced by max (mutant)
_update_rate_max(o, stack, s) ==
    IF s = 0 THEN ZeroDivisionError
    ELSE LET w == o.warmup_steps[stack]
             decay == Frac(1, s)
             warm == Frac(s * s, w * w * w)
             m == IF FracLess(decay, warm) THEN warm ELSE decay
         IN  Frac(o.lr[stack] * o.lr[stack] * m.num, m.den)

\* _update_rate, reading the counter value s = self._step:
\*   lr[stack] * min(s ** (-0.5), s * warmup_steps[stack] ** (-1.5))
\* 0 ** (-0.5) raises ZeroDivisionError in Python.
_update_rate(o, stack, s) ==
    IF s = 0 THEN ZeroDivisionError
    ELSE LET w == o.warmup_steps[stack]
             decay == Frac(1, s)
             warm == Frac(s * s, w * w * w)
             m == FracMin(decay, warm)
         IN  Frac(o.lr[stack] * o.lr[stack] * m.num, m.den)

\* the loop of step() over both stacks, the counter being s: the rates it
\* stores, or the exception the first _update_rate raises
apply_rates(o, s) ==
    IF \E stack \in Stacks : _update_rate(o, stack, s) = ZeroDivisionError
    THEN [self |-> o, raised |-> "ZeroDivisionError"]
    ELSE [self |-> [o EXCEPT !.current_learning_rates =
                        [stack \in Stacks |-> _update_rate(o, stack, s)]],
          raised |-> "none"]

\* step() with the rates computed before the increment (mutant)
BertSumOptimizer_step_stale(o) ==
    LET r == apply_rates(o, o._step)
    IN  [self |-> [r.self EXCEPT !._step = o._step + 1], raised |-> r.raised]

\* step() with the counter incremented twice (mutant)
BertSumOptimizer_step_twice(o) ==
    apply_rates([o EXCEPT !._step = o._step + 2], o._step + 2)

\* step(): self._step += 1, then every stack's rate from the new counter
BertSumOptimizer_step(o) ==
    apply_rates([o EXCEPT !._step = o._step + 1], o._step + 1)

\* zero_grad(): reads self.optimizer_decoder and self.optimizer_encoder
zero_grad_raises ==
    IF {"optimizer_decoder", "optimizer_encoder"} \subseteq BertSumOptimizer_attributes
    THEN "none" ELSE "AttributeError"

\* ------------------------------------------------------ tokenizer, helpers
\* token ids of the tokenizer; every other id is text
pad_token_id == 0
cls_token_id == 1
sep_token_id == 2
period_token_id == 3
\* the value build_lm_labels writes at pad positions
ignore_label == -1

\* encode_for_summarization: each side gets the leading and the closing
\* special token
encode_for_summarization(story, summary) ==
    << <<cls_token_id>> \o story \o <<sep_token_id>>,
       <<cls_token_id>> \o summary \o <<sep_token_id>> >>

\* fit_to_block_size: cut to block_size or pad on the right
fit_to_block_size(sequence, block_size, pad) ==
    IF Len(sequence) > block_size
    THEN SubSeq(sequence, 1, block_size)
    ELSE sequence \o [i \in 1..(block_size - Len(sequence)) |-> pad]

\* compute_token_type_ids: the segment number, modulo 2, counted in
\* occurrences of the separator up to each position
compute_token_type_ids(rows, separator) ==
    [r \in DOMAIN rows |->
        [i \in DOMAIN rows[r] |->
            Cardinality({j \in 1..i : rows[r][j] = separator}) % 2]]

\* build_mask: 1 where the token is not the pad token
build_mask(rows, pad) ==
    [r \in DOMAIN rows |-> [i \in DOMAIN rows[r] |-> IF rows[r][i] = pad THEN 0 ELSE 1]]

\* build_lm_labels: the rows with the pad token replaced by the ignored label
build_lm_labels(rows, pad) ==
    [r \in DOMAIN rows |->
        [i \in DOMAIN rows[r] |-> IF rows[r][i] = pad THEN ignore_label ELSE rows[r][i]]]

\* ----------------------------------------------------------------- collate
\* the filter of collate with "or" turned into "and" (mutant)
keep_pair_and(x) == ~(Len(x[1]) = 0 /\ Len(x[2]) = 0)

\* the filter of collate: neither the story nor the summary is empty
keep_pair(x) == ~(Len(x[1]) = 0 \/ Len(x[2]) = 0)

collate(data, block_size) ==
    LET kept == SelectSeq(data, keep_pair)
        encoded == [k \in DOMAIN kept |-> encode_for_summarization(kept[k][1], kept[k][2])]
        stories == [k \in DOMAIN kept |->
                       fit_to_block_size(encoded[k][1], block_size, pad_token_id)]
        summaries == [k \in DOMAIN kept |->
                         fit_to_block_size(encoded[k][2], block_size, pad_token_id)]
    IN  [source |-> stories,
         target |-> summaries,
         encoder_token_type_ids |-> compute_token_type_ids(stories, cls_token_id),
         encoder_mask |-> build_mask(stories, pad_token_id),
         decoder_mask |-> build_mask(summaries, pad_token_id),
         lm_labels |-> build_lm_labels(summaries, pad_token_id)]

\* no batch in hand
NoBatch == collate(<< >>, BlockSize)

\* ------------------------------------------------- beam search: the scores
\* The final score of a candidate is its cumulative log-score divided by
\* length^alpha.  alpha is the fraction num/den, and the real number
\* score / length^alpha is kept exactly as the triple (num, pow, root)
\* standing for num / pow^(1/root), with pow = length^alpha.num.

RECURSIVE Pow(_, _)
Pow(x, n) == IF n = 0 THEN 1 ELSE x * Pow(x, n - 1)

\* alpha=0.9 of summarize
alpha_summarize == [num |-> 9, den |-> 10]

final_score_unnormalized(h, alpha) ==
    [num |-> h.score, pow |-> 1, root |-> alpha.den]
\* cumulative log-score divided by length^alpha
final_score(h, alpha) ==
    [num |-> h.score, pow |-> Pow(h.length, alpha.num), root |-> alpha.den]

\* x < y for two final scores of the same root r: x.num * y.pow^(1/r) is
\* compared with y.num * x.pow^(1/r), by sign and then by r-th powers
ScoreLess(x, y) ==
    LET r == x.root
        ax == IF x.num < 0 THEN -x.num ELSE x.num
        ay == IF y.num < 0 THEN -y.num ELSE y.num
    IN  IF x.num < 0 /\ y.num >= 0 THEN TRUE
        ELSE IF x.num >= 0 /\ y.num < 0 THEN FALSE
        ELSE IF x.num >= 0
             THEN Pow(ax, r) * y.pow < Pow(ay, r) * x.pow
             ELSE Pow(ax, r) * y.pow > Pow(ay, r) * x.pow

\* ---------------------------------------------------- summarize, evaluate
\* the beam search over a batch: per row the candidate sequences and their
\* scores.  The network is opaque; a row's candidate is its text tokens.
BeamSearch(source) ==
    [predictions |->
        [b \in DOMAIN source |->
            << SelectSeq(source[b],
                         LAMBDA tok : tok \notin {pad_token_id, cls_token_id, sep_token_id}) >>],
     scores |-> [b \in DOMAIN source |->
                    << final_score([score |-> 0, length |-> 1], alpha_summarize) >>]]

\* the scan of max(): the running best index is replaced by a later one
\* whose key is greater or equal (mutant)
RECURSIVE max_scan_last(_, _, _)
max_scan_last(scores, i, best) ==
    IF i > Len(scores) THEN best
    ELSE max_scan_last(scores, i + 1,
                       IF ~ScoreLess(scores[i], scores[best]) THEN i ELSE best)
best_prediction_idx_last(scores) == max_scan_last(scores, 2, 1)

\* the scan of max(): the running best index is replaced by a later one
\* whose key is greater
RECURSIVE max_scan(_, _, _)
max_scan(scores, i, best) ==
    IF i > Len(scores) THEN best
    ELSE max_scan(scores, i + 1,
                  IF ScoreLess(scores[best], scores[i]) THEN i ELSE best)

\* max(enumerate(scores), key=score)[0]: the first index of a largest score
\* (counted from 1 here)
best_prediction_idx(scores) == max_scan(scores, 2, 1)

\* summarize: one token sequence per row of the batch
summarize(source) ==
    LET results == BeamSearch(source)
    IN  [b \in DOMAIN source |->
            results.predictions[b][best_prediction_idx(results.scores[b])]]

\* str.split("."): the pieces between the periods, the empty ones included
RECURSIVE split(_)
split(tokens) ==
    IF \A i \in DOMAIN tokens : tokens[i] # period_token_id
    THEN << tokens >>
    ELSE LET p == CHOOSE i \in DOMAIN tokens :
                      /\ tokens[i] = period_token_id
                      /\ \A j \in 1..(i - 1) : tokens[j] # period_token_id
         IN  << SubSeq(tokens, 1, p - 1) >> \o split(SubSeq(tokens, p + 1, Len(tokens)))

\* decode_summary: the sentences, each closed by a period
decode_summary(summary_tokens) ==
    LET sentences == split(summary_tokens)
    IN  [k \in DOMAIN sentences |-> sentences[k] \o <<period_token_id>>]

\* create_evaluation_set: original_<i>.txt holds the summary of the example
\* at position i of the dataset, every example included
create_evaluation_set(dataset) ==
    [i \in 0..(Len(dataset) - 1) |-> dataset[i + 1][2]]

\* the text tokens of the example at 0-based position i of a dataset
ExampleText(i) == 10 + i

\* the datasets: every example has a story and a summary, each empty or not
Datasets ==
    UNION {[1..n -> {"full", "long", "no_story", "no_summary", "empty"}] :
              n \in 0..MaxExamples}

ExampleOf(kind, i) ==
    << CASE kind \in {"no_story", "empty"} -> << >>
         [] kind = "long" -> <<ExampleText(i), period_token_id, ExampleText(i), ExampleText(i)>>
         [] OTHER -> <<ExampleText(i)>>,
       IF kind \in {"no_summary", "empty"} THEN << >> ELSE <<ExampleText(i)>> >>

OptIdle ==
    /\ optimizer = BertSumOptimizer_init([s \in Stacks |-> 0], [s \in Stacks |-> 1])
    /\ grad = [s \in Stacks |-> 0]
    /\ call = [name |-> "__init__", raised |-> "none"]

TrainIdle ==
    /\ args = [max_steps |-> -1, gradient_accumulation_steps |-> 1, num_train_epochs |-> 0]
    /\ n_batches = 0
    /\ t_total = 0
    /\ epoch = 0
    /\ step = 0
    /\ global_step = 0

\* args.output_dir when os.path.exists is false
NoDirectory == [exists |-> FALSE, entries |-> {}]

\* the node rank of the machine a process runs on: the first machine of the
\* launch, or another one
NodeRanks == {0, 1}

MainIdle ==
    /\ env = [device_count |-> 0, dir0 |-> NoDirectory, node_rank |-> 0]
    /\ output_dir = NoDirectory
    /\ response = << >>
    /\ save_calls = 0
    /\ work = {}

\* no summary writer has been created
NoWriter == [state |-> "none", entries |-> << >>]

SideIdle ==
    /\ tb_writer = NoWriter
    /\ procs = << >>
    /\ beam = << >>

EvalIdle ==
    /\ eval_dataset = << >>
    /\ eval_batch_size = 1
    /\ eval_pos = 0
    /\ idx_summary = 0
    /\ files = << >>

\* evaluate, up to its loop: a sequential sampler over the dataset
EvalInit ==
    /\ \E kinds \in Datasets :
          eval_dataset = [i \in DOMAIN kinds |-> ExampleOf(kinds[i], i - 1)]
    /\ eval_batch_size \in 1..MaxEvalBatch
    /\ eval_pos = 0
    /\ idx_summary = 0
    /\ files = << >>
    /\ samples = << >>
    /\ batch = NoBatch
    /\ pc = "eval_loop"
    /\ exc = "none"
    /\ OptIdle
    /\ TrainIdle
    /\ MainIdle
    /\ SideIdle

\* the data loader hands out the next eval_batch_size examples, in dataset
\* order, through collate; the loop ends when none is left
EvalLoadBatch ==
    /\ pc = "eval_loop"
    /\ IF eval_pos < Len(eval_dataset)
       THEN LET last == IF eval_pos + eval_batch_size < Len(eval_dataset)
                        THEN eval_pos + eval_batch_size ELSE Len(eval_dataset)
            IN  /\ samples' = SubSeq(eval_dataset, eval_pos + 1, last)
                /\ batch' = collate(SubSeq(eval_dataset, eval_pos + 1, last), BlockSize)
                /\ eval_pos' = last
                /\ pc' = "eval_batch"
       ELSE /\ pc' = "eval_done"
            /\ UNCHANGED <<samples, batch, eval_pos>>
    /\ UNCHANGED <<eval_dataset, eval_batch_size, idx_summary, files, exc, optVars,
                   trainVars, mainVars, sideVars, tb_writer>>

\* the body of the loop: summarize the batch, write one file per summary.
\* What the beam search does with a batch of no rows is not defined by this
\* file: it returns no summary, or it raises.
EvalWriteBatch ==
    /\ pc = "eval_batch"
    /\ \/ /\ LET summaries_tokens == summarize(batch.source)
             IN  /\ files' = [i \in (DOMAIN files) \cup
                                     (idx_summary..(idx_summary + Len(summaries_tokens) - 1)) |->
                                 IF i >= idx_summary
                                 THEN decode_summary(summaries_tokens[i - idx_summary + 1])
                                 ELSE files[i]]
                 /\ idx_summary' = idx_summary + Len(summaries_tokens)
          /\ pc' = "eval_loop"
          /\ exc' = "none"
       \/ /\ Len(batch.source) = 0
          /\ pc' = "raised"
          /\ exc' = "RuntimeError"
          /\ UNCHANGED <<files, idx_summary>>
    /\ samples' = << >>
    /\ batch' = NoBatch
    /\ UNCHANGED <<eval_dataset, eval_batch_size, eval_pos, optVars, trainVars,
                   mainVars, sideVars, tb_writer>>

EvalNext == EvalLoadBatch \/ EvalWriteBatch

SpecEval == EvalInit /\ [][EvalNext]_vars

\* ------------------------------------------------- main: the device set-up
\* torch.device(type) and torch.device(type, index); index -1 stands for None
torch_device(type, index) == [type |-> type, index |-> index]

\* `not torch.cuda.is_available`: the operand is the function itself, which
\* is not called; a function object is true, so the negation is false
not_torch_cuda_is_available == FALSE

\* the set-up of the training device(s): the attributes it adds to args,
\* whether it raises, and whether the process group gets initialized
device_setup(a, device_count) ==
    LET is_distributed == a.local_rank # -1
        is_first_process == a.local_rank = 0
        flags == [is_distributed |-> is_distributed,
                  is_first_process |-> is_first_process,
                  is_monitoring_process |-> ~is_distributed \/ is_first_process]
    IN  IF a.to_cpu \/ not_torch_cuda_is_available
        THEN [args |-> a @@ flags @@ [device |-> torch_device("cpu", -1), n_gpu |-> 0],
              raised |-> FALSE, process_group |-> FALSE]
        ELSE IF ~is_distributed
        THEN [args |-> a @@ flags @@ [device |-> torch_device("cuda", -1),
                                      n_gpu |-> device_count],
              raised |-> FALSE, process_group |-> FALSE]
        ELSE IF a.local_rank >= device_count
        \* torch.cuda.set_device has no such device to select
        THEN [args |-> a @@ flags, raised |-> TRUE, process_group |-> FALSE]
        ELSE [args |-> a @@ flags @@ [device |-> torch_device("cuda", a.local_rank),
                                      n_gpu |-> 1],
              raised |-> FALSE, process_group |-> TRUE]

\* model.to(device) succeeds on the CPU and on an accelerator that exists
device_usable(device, device_count) ==
    \/ device.type = "cpu"
    \/ device_count > 0

\* -------------------------------------------------------------------- train
\* the rates and warmup lengths train hands to the optimizer: 0.002 and 0.1
\* in units of 0.002, 20000 and 10000 steps in units of 10000 / WarmupUnit
learning_rates == [encoder |-> 1, decoder |-> 50]
warmup_steps == [encoder |-> 2 * WarmupUnit, decoder |-> WarmupUnit]

\* the training schedule: t_total and the number of epochs train will run
training_schedule(a, len_dataloader) ==
    IF a.max_steps > 0
    THEN [t_total |-> a.max_steps,
          num_train_epochs |->
              a.max_steps \div (len_dataloader \div a.gradient_accumulation_steps + 1)]
    ELSE [t_total |->
              (len_dataloader \div a.gradient_accumulation_steps) * a.num_train_epochs,
          num_train_epochs |-> a.num_train_epochs]

\* the end of an accumulation window tested on step instead of step + 1 (mutant)
accumulation_boundary_early(batch_index, gas) == batch_index % gas = 0

\* the end of an accumulation window: (step + 1) % gradient_accumulation_steps == 0
accumulation_boundary(batch_index, gas) == (batch_index + 1) % gas = 0

\* the early stop: args.max_steps > 0 and global_step > args.max_steps
early_stop(a, gs) == a.max_steps > 0 /\ gs > a.max_steps

\* what the random sampler can hand to collate as one batch: a kept pair, a
\* pair without summary, a pair without story followed by a kept pair
TrainFetches ==
    { << ExampleOf("full", 0) >>,
      << ExampleOf("no_summary", 0) >>,
      << ExampleOf("no_story", 0), ExampleOf("full", 1) >> }

\* the calls of the summary writer, as they are recorded
add_text(tag, gs) == [call |-> "add_text", tag |-> tag, step |-> gs]
add_scalar(tag, value, gs) == [call |-> "add_scalar", tag |-> tag, value |-> value, step |-> gs]
add_scalar_loss(gs) == [call |-> "add_scalar", tag |-> "loss", step |-> gs]
add_scalars(idx, gs) == [call |-> "add_scalars", tag |-> "memory_gpu", idx |-> idx, step |-> gs]

monitoring_due_always(a, gs) == a.is_monitoring_process /\ a.logging_steps > 0
\* the condition of the monitoring block
monitoring_due(a, gs) ==
    /\ a.is_monitoring_process
    /\ a.logging_steps > 0
    /\ gs % a.logging_steps = 0

\* the condition of the sample summary inside the monitoring block
sample_summary(a) == ~a.is_distributed /\ a.evaluate_during_training

\* the calls of the monitoring block, in the order of its lines
monitoring_writes(a, o, gs) ==
    (IF sample_summary(a)
     THEN << add_text("summary", gs), add_text("article", gs) >>
     ELSE << >>)
    \o << add_scalar("learning_rate_encoder", o.current_learning_rates["encoder"], gs),
          add_scalar("learning_rate_decoder", o.current_learning_rates["decoder"], gs),
          add_scalar_loss(gs) >>
    \o [i \in 1..a.n_gpu |-> add_scalars(i - 1, gs)]

\* train is called by main: args carries what the device set-up added, on a
\* machine with an accelerator for every local rank
TrainInit ==
    /\ \E r \in (-1)..MaxRank :
       \E t \in [max_steps : (-1)..MaxCap,
                 gradient_accumulation_steps : 1..MaxGas,
                 num_train_epochs : 0..MaxEpochs,
                 logging_steps : 0..MaxLog,
                 evaluate_during_training : BOOLEAN] :
          args = device_setup([to_cpu |-> FALSE, local_rank |-> r], MaxRank + 1).args @@ t
    /\ env \in [device_count : {MaxRank + 1}, dir0 : {NoDirectory}, node_rank : NodeRanks]
    \* the machine decides whether get_rank() is 0 in the process of local rank 0 only
    /\ args.local_rank # 0 => env.node_rank = 0
    /\ output_dir = env.dir0
    /\ response = << >>
    /\ save_calls = 0
    /\ work = {"device", "model"}
    /\ n_batches \in 0..MaxBatches
    /\ t_total = 0
    /\ epoch = 0
    /\ step = 0
    /\ global_step = 0
    /\ pc = "train"
    /\ exc = "none"
    /\ samples = << >>
    /\ batch = NoBatch
    /\ OptIdle
    /\ EvalIdle
    /\ SideIdle

\* train up to its loops: the summary writer, the schedule, the optimizer,
\* model.zero_grad()
TrainSetup ==
    /\ pc = "train"
    /\ tb_writer' = IF args.is_monitoring_process
                    THEN [state |-> "open", entries |-> << >>]
                    ELSE tb_writer
    /\ t_total' = training_schedule(args, n_batches).t_total
    /\ args' = [args EXCEPT !.num_train_epochs =
                                training_schedule(args, n_batches).num_train_epochs]
    /\ optimizer' = BertSumOptimizer_init(learning_rates, warmup_steps)
    /\ call' = [name |-> "__init__", raised |-> "none"]
    /\ grad' = [s \in Stacks |-> 0]
    /\ global_step' = 0
    /\ epoch' = 0
    /\ pc' = "epoch_loop"
    /\ UNCHANGED <<exc, samples, batch, n_batches, step, evalVars, mainVars, sideVars>>

\* for _ in train_iterator: the next epoch with a fresh enumerate, or the end
TrainEpochIter ==
    /\ pc = "epoch_loop"
    /\ IF epoch < args.num_train_epochs
       THEN epoch' = epoch + 1 /\ step' = 0 /\ pc' = "step_loop"
       ELSE pc' = "return" /\ UNCHANGED <<epoch, step>>
    /\ UNCHANGED <<optVars, exc, samples, batch, args, n_batches, t_total, global_step,
                   evalVars, mainVars, sideVars, tb_writer>>

\* for step, batch in enumerate(epoch_iterator): the data loader collates the
\* next batch, or the epoch is exhausted
TrainLoadBatch ==
    /\ pc = "step_loop"
    /\ IF step < n_batches
       THEN \E fetched \in TrainFetches :
               /\ samples' = fetched
               /\ batch' = collate(fetched, BlockSize)
               /\ pc' = "forward"
       ELSE pc' = "epoch_end" /\ UNCHANGED <<samples, batch>>
    /\ UNCHANGED <<optVars, exc, trainVars, evalVars, mainVars, sideVars, tb_writer>>

\* the forward pass and loss.backward().  What the network does with a batch
\* of no rows is not defined by this file: it returns a loss, or it raises.
TrainForwardBackward ==
    /\ pc = "forward"
    /\ \/ /\ grad' = [s \in Stacks |-> grad[s] + 1]
          /\ pc' = "accumulate"
          /\ exc' = "none"
       \/ /\ Len(batch.source) = 0
          /\ pc' = "raised"
          /\ exc' = "RuntimeError"
          /\ UNCHANGED grad
    /\ UNCHANGED <<optimizer, call, samples, batch, trainVars, evalVars, mainVars, sideVars, tb_writer>>

\* the rest of the loop body: at the end of an accumulation window the
\* optimizer step, model.zero_grad(), global_step += 1 and the monitoring
\* block; then the early stop.  A call of the summary writer returns or
\* raises (its disk, its event file); the loss totals are not part of this
\* state.
TrainAccumulate ==
    /\ pc = "accumulate"
    /\ LET boundary == accumulation_boundary(step, args.gradient_accumulation_steps)
           r == BertSumOptimizer_step(optimizer)
           stepped == boundary /\ r.raised = "none"
           gs == IF stepped THEN global_step + 1 ELSE global_step
           due == stepped /\ monitoring_due(args, gs)
           writes == monitoring_writes(args, r.self, gs)
       IN  /\ optimizer' = IF boundary THEN r.self ELSE optimizer
           /\ call' = IF boundary THEN [name |-> "step", raised |-> r.raised] ELSE call
           /\ grad' = IF stepped THEN [s \in Stacks |-> 0] ELSE grad
           /\ global_step' = gs
           /\ IF boundary /\ r.raised # "none"
              THEN pc' = "raised" /\ exc' = r.raised /\ UNCHANGED <<step, tb_writer>>
              ELSE IF due /\ sample_summary(args) /\ Len(batch.source) = 0
              THEN \* source[0] of a batch without rows
                   pc' = "raised" /\ exc' = "IndexError" /\ UNCHANGED <<step, tb_writer>>
              ELSE \/ /\ tb_writer' = IF due
                                      THEN [tb_writer EXCEPT !.entries = @ \o writes]
                                      ELSE tb_writer
                      /\ exc' = "none"
                      /\ IF early_stop(args, gs)
                         THEN pc' = "epoch_end" /\ UNCHANGED step
                         ELSE pc' = "step_loop" /\ step' = step + 1
                   \/ /\ due
                      /\ \E k \in 0..(Len(writes) - 1) :
                            tb_writer' = [state |-> "failed",
                                          entries |-> tb_writer.entries \o SubSeq(writes, 1, k)]
                      /\ pc' = "raised"
                      /\ exc' = "SinkError"
                      /\ UNCHANGED step
    /\ samples' = << >>
    /\ batch' = NoBatch
    /\ UNCHANGED <<args, n_batches, t_total, epoch, evalVars, mainVars, sideVars>>

\* after the batch loop: the early stop again, else the next epoch
TrainEpochEnd ==
    /\ pc = "epoch_end"
    /\ pc' = IF early_stop(args, global_step) THEN "return" ELSE "epoch_loop"
    /\ UNCHANGED <<optVars, exc, samples, batch, trainVars, evalVars, mainVars, sideVars, tb_writer>>

\* tb_writer.close(); return global_step, tr_loss / global_step
TrainReturn ==
    /\ pc = "return"
    /\ tb_writer' = IF args.is_monitoring_process
                    THEN [tb_writer EXCEPT !.state = "closed"]
                    ELSE tb_writer
    /\ IF global_step = 0
       THEN pc' = "raised" /\ exc' = "ZeroDivisionError"
       ELSE pc' = "returned" /\ exc' = "none"
    /\ UNCHANGED <<optVars, samples, batch, trainVars, evalVars, mainVars, sideVars>>

TrainLoop ==
    \/ TrainSetup
    \/ TrainEpochIter
    \/ TrainLoadBatch
    \/ TrainForwardBackward
    \/ TrainAccumulate
    \/ TrainEpochEnd
    \/ TrainReturn

\* ----------------------------------------------- the optimizer driven alone
OptInit ==
    /\ \E lr \in [Stacks -> 0..MaxBase], w \in [Stacks -> 1..MaxWarmup] :
          optimizer = BertSumOptimizer_init(lr, w)
    /\ grad = [s \in Stacks |-> 0]
    /\ call = [name |-> "__init__", raised |-> "none"]
    /\ pc = "optimizer"
    /\ exc = "none"
    /\ samples = << >>
    /\ batch = NoBatch
    /\ TrainIdle
    /\ EvalIdle
    /\ MainIdle
    /\ SideIdle

\* loss.backward(): one more batch summed into every parameter's gradient
OptBackward ==
    /\ \A s \in Stacks : grad[s] < 2
    /\ grad' = [s \in Stacks |-> grad[s] + 1]
    /\ call' = [name |-> "backward", raised |-> "none"]
    /\ UNCHANGED <<optimizer, notOptVars>>

OptStep ==
    /\ optimizer._step < StepHorizon
    /\ optimizer' = BertSumOptimizer_step(optimizer).self
    /\ call' = [name |-> "step", raised |-> BertSumOptimizer_step(optimizer).raised]
    /\ UNCHANGED <<grad, notOptVars>>

OptZeroGrad ==
    /\ call' = [name |-> "zero_grad", raised |-> zero_grad_raises]
    /\ grad' = IF zero_grad_raises = "none" THEN [s \in Stacks |-> 0] ELSE grad
    /\ UNCHANGED <<optimizer, notOptVars>>

OptNext == OptBackward \/ OptStep \/ OptZeroGrad

SpecOpt == OptInit /\ [][OptNext]_vars

\* --------------------------------------------------------------------- main
\* One process of a run, from the parsed arguments to its end.  train is
\* taken by its outcome (it returns, it is interrupted by the user, it raises),
\* and a barrier by what it does to the process that calls it.

\* the three parts save_model_checkpoints writes, in the order of its lines
CheckpointParts == <<"model", "tokenizer", "training_arguments">>
PartSet == {CheckpointParts[i] : i \in 1..Len(CheckpointParts)}

\* what the output directory can hold when the process starts
InitialDirs ==
    { NoDirectory,
      [exists |-> TRUE, entries |-> {}],
      [exists |-> TRUE, entries |-> PartSet],
      [exists |-> TRUE, entries |-> {"notes.txt"}] }

\* what the user can type at the prompt
Responses ==
    { << >>, <<"y">>, <<"Y">>, <<"y", "e", "s">>, <<"Y", "E", "S">>,
      <<"Y", "e", "s">>, <<"y", "E", "s">>, <<"n">>, <<"N">>, <<"n", "o">>,
      <<"y", "e">>, <<"y", "e", "s", "s">>, <<" ", "y">> }

\* str.lower, character by character
lower_char(c) ==
    CASE c = "Y" -> "y"
      [] c = "E" -> "e"
      [] c = "S" -> "s"
      [] c = "N" -> "n"
      [] c = "O" -> "o"
      [] OTHER -> c
lower(s) == [i \in 1..Len(s) |-> lower_char(s[i])]

is_affirmative_exact(r) == r \in { << >>, <<"y">>, <<"y", "e", "s">> }
\* response.lower() in ["", "y", "yes"]
is_affirmative(r) == lower(r) \in { << >>, <<"y">>, <<"y", "e", "s">> }

output_dir_conflict_overwrite(a, dir) ==
    /\ dir.exists
    /\ dir.entries # {}
    /\ a.do_train
    /\ a.do_overwrite_output_dir
\* the condition under which main raises the ValueError
output_dir_conflict(a, dir) ==
    /\ dir.exists
    /\ dir.entries # {}
    /\ a.do_train
    /\ ~a.do_overwrite_output_dir

MainInit ==
    /\ args \in [do_train : BOOLEAN, do_evaluate : BOOLEAN,
                 do_overwrite_output_dir : BOOLEAN, to_cpu : BOOLEAN,
                 local_rank : (-1)..MaxRank]
    /\ env \in [device_count : 0..MaxGpus, dir0 : InitialDirs, node_rank : NodeRanks]
    /\ args.local_rank = -1 => env.node_rank = 0
    /\ output_dir = env.dir0
    /\ response = << >>
    /\ save_calls = 0
    /\ work = {}
    /\ pc = "main"
    /\ exc = "none"
    /\ samples = << >>
    /\ batch = NoBatch
    /\ n_batches = 0
    /\ t_total = 0
    /\ epoch = 0
    /\ step = 0
    /\ global_step = 0
    /\ OptIdle
    /\ EvalIdle
    /\ SideIdle

mainRest == <<samples, batch, n_batches, t_total, epoch, step, global_step,
              optVars, evalVars, sideVars, tb_writer>>

\* the check of the output directory
MainCheckOutputDir ==
    /\ pc = "main"
    /\ IF output_dir_conflict(args, output_dir)
       THEN pc' = "raised" /\ exc' = "ValueError"
       ELSE pc' = "device_setup" /\ exc' = exc
    /\ UNCHANGED <<args, mainVars, mainRest>>

MainDeviceSetup ==
    /\ pc = "device_setup"
    /\ LET r == device_setup(args, env.device_count)
       IN  /\ args' = r.args
           /\ IF r.raised
              THEN pc' = "raised" /\ exc' = "RuntimeError" /\ work' = work
              ELSE /\ pc' = "load_model"
                   /\ exc' = exc
                   /\ work' = work \cup {"device"}
                                   \cup (IF r.process_group THEN {"process_group"} ELSE {})
    /\ UNCHANGED <<env, output_dir, response, save_calls, mainRest>>

\* the barriers around get_BertAbs_model, the shared embeddings, model.to.
\* A barrier raises in a process whose process group was never initialized.
MainLoadModel ==
    /\ pc = "load_model"
    /\ IF args.is_distributed /\ ~args.is_first_process /\ "process_group" \notin work
       THEN pc' = "raised" /\ exc' = "RuntimeError" /\ work' = work
       ELSE IF \/ args.is_first_process /\ "process_group" \notin work
               \/ ~device_usable(args.device, env.device_count)
       THEN pc' = "raised" /\ exc' = "RuntimeError" /\ work' = work \cup {"model"}
       ELSE pc' = "do_train" /\ exc' = exc /\ work' = work \cup {"model"}
    /\ UNCHANGED <<args, env, output_dir, response, save_calls, mainRest>>

\* if args.do_train: train(args, model, tokenizer), with its three outcomes
MainTrain ==
    /\ pc = "do_train"
    /\ \/ /\ ~args.do_train
          /\ pc' = "do_evaluate"
          /\ UNCHANGED <<exc, work>>
       \/ /\ args.do_train
          /\ pc' = "trained"
          /\ work' = work \cup {"train", "trained"}
          /\ exc' = exc
       \/ /\ args.do_train
          /\ pc' = "interrupted"
          /\ work' = work \cup {"train", "interrupt"}
          /\ exc' = exc
       \/ /\ args.do_train
          /\ pc' = "raised"
          /\ work' = work \cup {"train"}
          /\ exc' = "RuntimeError"
    /\ UNCHANGED <<args, env, output_dir, response, save_calls, mainRest>>

\* torch.distributed.get_rank(): the launcher numbers the processes node by
\* node, MaxRank + 1 of them on each
get_rank(a, e) == e.node_rank * (MaxRank + 1) + a.local_rank

writes_checkpoint_always(a, e) == TRUE
\* the processes of a distributed run other than rank 0 return from
\* save_model_checkpoints at once
writes_checkpoint(a, e) == ~(a.is_distributed /\ get_rank(a, e) # 0)

\* the call of save_model_checkpoints up to its first write
save_model_checkpoints(return_to) ==
    /\ save_calls' = save_calls + 1
    /\ IF writes_checkpoint(args, env)
       THEN pc' = "save_model" /\ output_dir' = [output_dir EXCEPT !.exists = TRUE]
       ELSE pc' = return_to /\ output_dir' = output_dir

\* except KeyboardInterrupt: input(...), the test of the answer
MainPrompt ==
    /\ pc = "interrupted"
    /\ \/ \E r \in Responses :
            /\ response' = r
            /\ work' = work \cup {"answered"}
            /\ exc' = exc
            /\ IF is_affirmative(r)
               THEN save_model_checkpoints("exit")
               ELSE pc' = "exit" /\ UNCHANGED <<save_calls, output_dir>>
       \/ \* the input stream is closed
          /\ pc' = "raised"
          /\ exc' = "EOFError"
          /\ UNCHANGED <<response, work, save_calls, output_dir>>
    /\ UNCHANGED <<args, env, mainRest>>

\* sys.exit(0)
MainExit ==
    /\ pc = "exit"
    /\ pc' = "exited"
    /\ exc' = "SystemExit"
    /\ UNCHANGED <<args, mainVars, mainRest>>

\* the save at the end of a training that returned
MainSaveAfterTrain ==
    /\ pc = "trained"
    /\ save_model_checkpoints("do_evaluate")
    /\ UNCHANGED <<args, env, response, work, exc, mainRest>>

\* where save_model_checkpoints returns to
save_return == IF "interrupt" \in work THEN "exit" ELSE "do_evaluate"

\* one write of save_model_checkpoints: the part is written and the next
\* line is reached, or the write is cut short (disk, a second interrupt)
SaveWrite(at, part, next) ==
    /\ pc = at
    /\ \/ /\ output_dir' = [output_dir EXCEPT !.entries = @ \cup {part}]
          /\ pc' = next
          /\ exc' = exc
       \/ /\ pc' = "raised"
          /\ exc' = "OSError"
          /\ output_dir' = output_dir
    /\ UNCHANGED <<args, env, response, save_calls, work, mainRest>>

SaveModel == SaveWrite("save_model", CheckpointParts[1], "save_tokenizer")
SaveTokenizer == SaveWrite("save_tokenizer", CheckpointParts[2], "save_args")
SaveArgs == SaveWrite("save_args", CheckpointParts[3], save_return)

\* the evaluation of the checkpoint of the output directory
MainEvaluate ==
    /\ pc = "do_evaluate"
    /\ IF args.do_evaluate /\ (~args.is_distributed \/ args.is_first_process)
       THEN IF "model" \in output_dir.entries
            THEN /\ output_dir' = [output_dir EXCEPT
                                       !.entries = @ \cup {"generated_summaries"}]
                 /\ work' = work \cup {"evaluate"}
                 /\ pc' = "done"
                 /\ exc' = exc
            ELSE \* from_pretrained finds no checkpoint
                 /\ pc' = "raised"
                 /\ exc' = "OSError"
                 /\ UNCHANGED <<output_dir, work>>
       ELSE /\ pc' = "done"
            /\ UNCHANGED <<output_dir, work, exc>>
    /\ UNCHANGED <<args, env, response, save_calls, mainRest>>

MainNext ==
    \/ MainCheckOutputDir
    \/ MainDeviceSetup
    \/ MainLoadModel
    \/ MainTrain
    \/ MainPrompt
    \/ MainExit
    \/ MainSaveAfterTrain
    \/ SaveModel
    \/ SaveTokenizer
    \/ SaveArgs
    \/ MainEvaluate

SpecMain == MainInit /\ [][MainNext]_vars

\* train followed by what main does once it has returned
\* global_step, tr_loss = train(args, model, tokenizer)
MainTrainReturned ==
    /\ pc = "returned"
    /\ pc' = "trained"
    /\ work' = work \cup {"train", "trained"}
    /\ UNCHANGED <<args, env, output_dir, response, save_calls, exc, mainRest>>

TrainNext ==
    \/ TrainLoop
    \/ MainTrainReturned
    \/ MainSaveAfterTrain
    \/ SaveModel
    \/ SaveTokenizer
    \/ SaveArgs

SpecTrain == TrainInit /\ [][TrainNext]_vars

\* ----------------------------------------------- start-up of all processes
\* The processes of one launch, each running main from the device set-up to
\* model.to: a distributed launch of n processes has the local ranks 0..n-1,
\* a plain launch has the single local rank -1.  torch.distributed.barrier
\* returns in a process when every process of the group has called it.

LocalRanks(distributed, n) == IF distributed THEN 0..(n - 1) ELSE {-1}

barrier_complete_others(ps) ==
    \A r \in DOMAIN ps : r # 0 => ps[r].pc = "waiting"
\* every process of the group is inside the barrier
barrier_complete(ps) ==
    \A r \in DOMAIN ps : ps[r].pc = "waiting"

StartupInit ==
    /\ \E n \in 1..MaxProcs, distributed \in BOOLEAN, to_cpu \in BOOLEAN :
          /\ n > 1 => distributed
          /\ procs = [r \in LocalRanks(distributed, n) |->
                        [pc |-> "device_setup",
                         args |-> [to_cpu |-> to_cpu, local_rank |-> r],
                         process_group |-> FALSE,
                         barrier_calls |-> 0]]
    /\ env \in [device_count : {0, MaxProcs}, dir0 : {NoDirectory}, node_rank : {0}]
    /\ output_dir = NoDirectory
    /\ response = << >>
    /\ save_calls = 0
    /\ work = {}
    /\ pc = "startup"
    /\ exc = "none"
    /\ samples = << >>
    /\ batch = NoBatch
    /\ tb_writer = NoWriter
    /\ beam = << >>
    /\ OptIdle
    /\ TrainIdle
    /\ EvalIdle

notProcVars == <<optVars, pc, exc, samples, batch, trainVars, evalVars, mainVars,
                 tb_writer, beam>>

\* the set-up of the device(s) in process r
StartupDeviceSetup(r) ==
    /\ procs[r].pc = "device_setup"
    /\ LET s == device_setup(procs[r].args, env.device_count)
       IN  procs' = [procs EXCEPT ![r] =
                        [@ EXCEPT !.args = s.args,
                                  !.process_group = s.process_group,
                                  !.pc = IF s.raised THEN "raised" ELSE "setup_done"]]
    /\ UNCHANGED notProcVars

\* a process calls the barrier: it raises without a process group, waits otherwise
StartupCallBarrier(r, at) ==
    /\ procs[r].pc = at
    /\ procs' = [procs EXCEPT ![r] =
                    [@ EXCEPT !.barrier_calls = @ + 1,
                              !.pc = IF procs[r].process_group THEN "waiting" ELSE "raised"]]
    /\ UNCHANGED notProcVars

\* if args.is_distributed and not args.is_first_process: barrier()
StartupBarrierOthers(r) ==
    /\ procs[r].pc = "setup_done"
    /\ procs[r].args.is_distributed /\ ~procs[r].args.is_first_process
    /\ StartupCallBarrier(r, "setup_done")

\* get_BertAbs_model is entered: by a process that had no barrier to call
\* before it, or by one the barrier released
StartupBeginInit(r) ==
    /\ \/ /\ procs[r].pc = "setup_done"
          /\ ~(procs[r].args.is_distributed /\ ~procs[r].args.is_first_process)
       \/ procs[r].pc = "released"
    /\ procs' = [procs EXCEPT ![r].pc = "initializing"]
    /\ UNCHANGED notProcVars

\* get_BertAbs_model returns, the embeddings are shared
StartupEndInit(r) ==
    /\ procs[r].pc = "initializing"
    /\ procs' = [procs EXCEPT ![r].pc =
                    IF procs[r].args.is_first_process THEN "initialized" ELSE "model_to"]
    /\ UNCHANGED notProcVars

\* if args.is_first_process: barrier()
StartupBarrierFirst(r) ==
    /\ procs[r].pc = "initialized"
    /\ procs[r].args.is_first_process
    /\ StartupCallBarrier(r, "initialized")

\* the barrier lets the processes inside it go
StartupRelease ==
    /\ \E r \in DOMAIN procs : procs[r].pc = "waiting"
    /\ barrier_complete(procs)
    /\ procs' = [r \in DOMAIN procs |->
                    IF procs[r].pc # "waiting" THEN procs[r]
                    ELSE [procs[r] EXCEPT !.pc =
                            IF procs[r].args.is_first_process THEN "model_to"
                            ELSE "released"]]
    /\ UNCHANGED notProcVars

\* model.to(args.device)
StartupModelTo(r) ==
    /\ procs[r].pc = "model_to"
    /\ procs' = [procs EXCEPT ![r].pc =
                    IF device_usable(procs[r].args.device, env.device_count)
                    THEN "ready" ELSE "raised"]
    /\ UNCHANGED notProcVars

StartupNext ==
    \/ \E r \in DOMAIN procs : StartupDeviceSetup(r)
    \/ \E r \in DOMAIN procs : StartupBarrierOthers(r)
    \/ \E r \in DOMAIN procs : StartupBeginInit(r)
    \/ \E r \in DOMAIN procs : StartupEndInit(r)
    \/ \E r \in DOMAIN procs : StartupBarrierFirst(r)
    \/ StartupRelease
    \/ \E r \in DOMAIN procs : StartupModelTo(r)

SpecStartup == StartupInit /\ [][StartupNext]_vars

\* the local ranks a launch can have
AllRanks == (-1)..(MaxProcs - 1)

\* the steps of the process of local rank r
ProcStep(r) ==
    /\ r \in DOMAIN procs
    /\ \/ StartupDeviceSetup(r)
       \/ StartupBarrierOthers(r)
       \/ StartupBeginInit(r)
       \/ StartupEndInit(r)
       \/ StartupBarrierFirst(r)
       \/ StartupModelTo(r)

\* every process is an operating-system process of its own and keeps
\* running while it has a step to take; the barrier returns once complete
SpecStartupFair ==
    /\ SpecStartup
    /\ \A r \in AllRanks : WF_vars(ProcStep(r))
    /\ WF_vars(StartupRelease)

\* ---------------------------------------------------------------- summarize
\* summarize on a batch of beam.batch_size sources.  The beam search is
\* outside this file: what it returns for an example is any row of at most
\* MaxBeams finished candidates, each with a cumulative log-score (a sum of
\* log-probabilities, so not above 0) and a length, scored by final_score.
\* The rows of the result are drawn one at a time, when summarize looks at
\* them, and beam.hyps and beam.scores hold the row in hand only.

\* the exponents of the length penalty: 1/2, 1, 3/2, 2 and summarize's 0.9
Alphas ==
    { [num |-> 1, den |-> 2], [num |-> 1, den |-> 1], [num |-> 3, den |-> 2],
      [num |-> 2, den |-> 1], alpha_summarize }

Hypotheses == [score : (-MaxScore)..0, length : 1..MaxLength]

BeamInit ==
    /\ \E alpha \in Alphas, n \in 0..MaxBeamBatch :
          beam = [alpha |-> alpha, batch_size |-> n, b |-> 0,
                  hyps |-> << >>, scores |-> << >>, summaries |-> << >>]
    /\ pc = "search"
    /\ exc = "none"
    /\ samples = << >>
    /\ batch = NoBatch
    /\ tb_writer = NoWriter
    /\ procs = << >>
    /\ OptIdle
    /\ TrainIdle
    /\ EvalIdle
    /\ MainIdle

notBeamVars == <<optVars, exc, samples, batch, trainVars, evalVars, mainVars,
                 tb_writer, procs>>

\* results["scores"][b] of the beam search, for the next example
BeamSearchRow ==
    /\ pc = "search"
    /\ beam.b < beam.batch_size
    /\ \E n \in 1..MaxBeams : \E hs \in [1..n -> Hypotheses] :
          beam' = [beam EXCEPT !.hyps = hs,
                               !.scores = [j \in 1..n |-> final_score(hs[j], beam.alpha)]]
    /\ pc' = "scored"
    /\ UNCHANGED notBeamVars

\* the best index of the row and the prediction at it
SummarizeSelect ==
    /\ pc = "scored"
    /\ beam' = [beam EXCEPT
                   !.summaries = Append(@, [example |-> beam.b,
                                            idx |-> best_prediction_idx(beam.scores) - 1]),
                   !.b = @ + 1,
                   !.hyps = << >>,
                   !.scores = << >>]
    /\ pc' = "search"
    /\ UNCHANGED notBeamVars

\* return summaries_tokens
SummarizeReturn ==
    /\ pc = "search"
    /\ beam.b = beam.batch_size
    /\ pc' = "returned"
    /\ UNCHANGED <<beam, notBeamVars>>

BeamNext ==
    \/ BeamSearchRow
    \/ SummarizeSelect
    \/ SummarizeReturn

SpecBeam == BeamInit /\ [][BeamNext]_vars

\* ------------------------------------------------------------------ claims
\* the schedule in closed form: base^2 / s from the warmup length on,
\* base^2 * s^2 / w^3 before it
ScheduleSq(base, w, s) ==
    IF s >= w THEN Frac(base * base, s) ELSE Frac(base * base * s * s, w * w * w)

C5_Inv ==
    /\ optimizer._step >= 0
    /\ call.raised # "ZeroDivisionError"
    /\ optimizer._step = 0 => DOMAIN optimizer.current_learning_rates = {}
    /\ optimizer._step >= 1 =>
          /\ DOMAIN optimizer.current_learning_rates = Stacks
          /\ \A stack \in Stacks :
                /\ optimizer.current_learning_rates[stack].den > 0
                /\ FracEq(optimizer.current_learning_rates[stack],
                          ScheduleSq(optimizer.lr[stack],
                                     optimizer.warmup_steps[stack], optimizer._step))

C5_Act ==
    /\ call'.name = "step" => optimizer'._step = optimizer._step + 1
    /\ optimizer'._step # optimizer._step => call'.name = "step"

\* C5: step() adds exactly 1 to the shared counter before any rate is
\* computed and both stacks' rates are the schedule's values for that new
\* counter; no other call changes the counter, which starts at 0, never
\* decreases, and is at least 1 whenever the rate formula is evaluated (no
\* division by zero).
C5_CounterIncrementedFirst == []C5_Inv /\ [][C5_Act]_vars

\* C5 witness: two steps were taken, other calls in between, both rates set
C5_Witness ==
    /\ optimizer._step = 2
    /\ call.name = "zero_grad"
    /\ DOMAIN optimizer.current_learning_rates = Stacks
    /\ \A stack \in Stacks : optimizer.lr[stack] > 0

\* the rate a stack has now, the rate the next step() would give it, and the
\* value base * w ** (-0.5), all as squares
RateNow(stack) == optimizer.current_learning_rates[stack]
RateNext(stack) == BertSumOptimizer_step(optimizer).self.current_learning_rates[stack]
PeakSq(stack) ==
    Frac(optimizer.lr[stack] * optimizer.lr[stack], optimizer.warmup_steps[stack])

\* the shape of the schedule around the counter value of this state, for a
\* stack whose rates are strictly ordered
StrictShape(stack) ==
    LET s == optimizer._step
        w == optimizer.warmup_steps[stack]
    IN  /\ s < w => FracLess(RateNow(stack), RateNext(stack))
        /\ s >= w => FracLess(RateNext(stack), RateNow(stack))
        /\ s # w => FracLess(RateNow(stack), PeakSq(stack))
        /\ s = 10 * w => FracLess(RateNow(stack), PeakSq(stack))

WeakShape(stack) ==
    /\ RateNow(stack).num >= 0 /\ RateNow(stack).den > 0
    /\ FracLeq(RateNow(stack), PeakSq(stack))
    /\ optimizer._step = optimizer.warmup_steps[stack] =>
          FracEq(RateNow(stack), PeakSq(stack))

\* C6 as stated (base rate >= 0): the applied rate is non-negative, strictly
\* increases while step < w, is base * w^-0.5 at step = w and nowhere else
\* that large, and strictly decreases from step = w on.
C6_AsStated ==
    optimizer._step >= 1 =>
        \A stack \in Stacks : WeakShape(stack) /\ StrictShape(stack)

\* C6, amended: for base rate >= 0 and w >= 1 the applied rate is
\* non-negative, never above base * w^-0.5 and equal to it at step = w; for
\* base rate > 0 it strictly increases while step < w, is strictly below the
\* peak at every step other than w, and strictly decreases from step = w on.
\* For base rate = 0 the rate is 0 at every step.
C6_RateShape ==
    optimizer._step >= 1 =>
        \A stack \in Stacks :
            /\ WeakShape(stack)
            /\ optimizer.lr[stack] > 0 => StrictShape(stack)
            /\ optimizer.lr[stack] = 0 => RateNow(stack).num = 0

\* C6 witness: a stack with a positive base rate and a warmup longer than
\* one step has reached ten times its warmup length
C6_Witness ==
    \E stack \in Stacks :
        /\ optimizer.lr[stack] > 0
        /\ optimizer.warmup_steps[stack] = MaxWarmup
        /\ optimizer._step = 10 * optimizer.warmup_steps[stack]
        /\ call.name = "step"

\* C7: zero_grad() returns without error and leaves both stacks' gradients
\* cleared.
C7_ZeroGradClears ==
    call.name = "zero_grad" =>
        call.raised = "none" /\ \A stack \in Stacks : grad[stack] = 0

\* the positions of d whose pair collate keeps, and the k-th of them
KeptPositions(d) == {i \in DOMAIN d : Len(d[i][1]) > 0 /\ Len(d[i][2]) > 0}
KthKept(d, k) ==
    CHOOSE i \in KeptPositions(d) : Cardinality({j \in KeptPositions(d) : j <= i}) = k

\* C8: collate returns six tensors with the same number of rows, the number
\* of input pairs minus the number of pairs whose story or summary is empty,
\* and row k is made of the k-th kept pair of the input (input order).
C8_CollateRows ==
    pc = "eval_batch" =>
        LET rows == Len(samples) - Cardinality((DOMAIN samples) \ KeptPositions(samples))
        IN  /\ \A f \in DOMAIN batch : Len(batch[f]) = rows
            /\ \A k \in 1..rows :
                  /\ \A f \in DOMAIN batch : Len(batch[f][k]) = BlockSize
                  /\ batch.source[k][1] = cls_token_id
                  /\ batch.source[k][2] = samples[KthKept(samples, k)][1][1]
                  /\ batch.target[k][1] = cls_token_id
                  /\ batch.target[k][2] = samples[KthKept(samples, k)][2][1]

\* C8 witness: four pairs, one of them with an empty summary and not the
\* last one, gave three rows
C8_Witness ==
    /\ pc = "eval_batch"
    /\ Len(samples) = 4
    /\ Len(samples[2][2]) = 0
    /\ KeptPositions(samples) = {1, 3, 4}
    /\ Len(batch.source) = 3
    /\ Len(batch.lm_labels) = 3

\* the summary evaluate would write for the example at 0-based position i,
\* the empty sequence when collate drops the example
SummaryOfExample(i) ==
    LET b == collate(<<eval_dataset[i + 1]>>, BlockSize)
    IN  IF Len(b.source) = 0 THEN << >> ELSE decode_summary(summarize(b.source)[1])

\* C10: model_<i>.txt holds the summary of the example at position i, the
\* position create_evaluation_set uses for original_<i>.txt, and when
\* evaluate has finished the indices written are those of the whole dataset.
C10_FileIndexIsPosition ==
    /\ \A i \in DOMAIN files :
          /\ i \in DOMAIN create_evaluation_set(eval_dataset)
          /\ files[i] = SummaryOfExample(i)
    /\ pc = "eval_done" => DOMAIN files = DOMAIN create_evaluation_set(eval_dataset)

\* C1: with max_steps > 0 a completed train has called optimizer.step()
\* max_steps times and returns global_step = max_steps.
C1_RunsMaxSteps ==
    (args.max_steps > 0 /\ pc = "returned") =>
        (optimizer._step = args.max_steps /\ global_step = args.max_steps)

\* C2: at every optimizer.step() exactly gradient_accumulation_steps backward
\* passes have been summed into the gradients since they were last cleared,
\* and global_step counts the optimizer steps.
C2_WindowIsExact ==
    /\ (pc = "accumulate" /\ accumulation_boundary(step, args.gradient_accumulation_steps)) =>
          \A stack \in Stacks : grad[stack] = args.gradient_accumulation_steps
    /\ pc # "train" => global_step = optimizer._step

\* with a cap, the step count stays below the cap: the early stop of train
\* is never taken
CapNeverReached ==
    (args.max_steps > 0 /\ pc # "train") =>
        (global_step < args.max_steps /\ ~early_stop(args, global_step))

\* C4: without a cap, when the loops of train have ended the number of
\* optimizer.step() calls equals the t_total it computed,
\* num_train_epochs * (batches per epoch // gradient_accumulation_steps).
C4_TotalStepsMatch ==
    (args.max_steps <= 0 /\ pc \in {"return", "returned"}) =>
        /\ optimizer._step = t_total
        /\ t_total = args.num_train_epochs * (n_batches \div args.gradient_accumulation_steps)

\* C4 witness: a completed run of two epochs whose batch count is no multiple
\* of the accumulation size
C4_Witness ==
    /\ args.max_steps <= 0
    /\ pc = "returned"
    /\ args.num_train_epochs = 2
    /\ args.gradient_accumulation_steps = 2
    /\ n_batches = 3
    /\ optimizer._step = 2

\* C9: a batch whose pairs are all filtered out never reaches the forward
\* pass (collate raises, the loop skips it) and no exception ends the run
\* because of it.
C9_EmptyBatchSkipped ==
    /\ pc \in {"forward", "accumulate"} => KeptPositions(samples) # {}
    /\ exc # "RuntimeError"

\* --------------------------------------------------------------- main's claims
\* the answers the prompt takes for a yes: empty, y, yes, in any letter case
AffirmativeAnswers ==
    { << >> } \cup { <<a>> : a \in {"y", "Y"} }
              \cup { <<a, b, c>> : a \in {"y", "Y"}, b \in {"e", "E"}, c \in {"s", "S"} }

\* C11: after an interrupted training the prompt is reached; once it is
\* answered save_model_checkpoints is called exactly when the answer is
\* affirmative, and at most once; neither the save that follows a completed
\* training nor the evaluation is ever reached by that process, which ends
\* with sys.exit(0).  A training that returned is followed by exactly one call.
C11_SaveOnConfirmation ==
    /\ "answered" \in work =>
          /\ save_calls = (IF response \in AffirmativeAnswers THEN 1 ELSE 0)
          /\ pc \in {"save_model", "save_tokenizer", "save_args", "exit", "exited", "raised"}
    /\ "interrupt" \in work =>
          /\ "evaluate" \notin work
          /\ "trained" \notin work
          /\ pc \notin {"trained", "do_evaluate", "done"}
          /\ pc = "exited" => "answered" \in work
    /\ "trained" \in work =>
          save_calls = (IF pc = "trained" THEN 0 ELSE 1)

C11_Witness ==
    /\ pc = "exited"
    /\ "answered" \in work
    /\ response = <<"Y", "e", "s">>
    /\ save_calls = 1
    /\ PartSet \subseteq output_dir.entries

\* the process has ended: normally, by sys.exit, or by an exception
Ended == pc \in {"done", "exited", "raised"}
\* the parts of a checkpoint the output directory holds
PartsPresent == output_dir.entries \cap PartSet

\* C12: once the process that started writing a checkpoint has ended, however
\* it ended, the output directory holds all three parts or none of them.
C12_CheckpointAtomic ==
    (Ended /\ save_calls > 0) => PartsPresent \in {{}, PartSet}

\* C13 as stated: a run that finds the output directory non-empty without the
\* overwrite flag stops at the check with a ValueError, has done no work and
\* leaves the directory as it found it.
C13_AsStated ==
    (env.dir0.exists /\ env.dir0.entries # {} /\ ~args.do_overwrite_output_dir) =>
        /\ pc \in {"main", "raised"}
        /\ pc = "raised" => exc = "ValueError"
        /\ work = {}
        /\ output_dir = env.dir0

\* C13: a training run (do_train) that finds the output directory non-empty
\* without the overwrite flag stops at the check with a ValueError, has done
\* no work and leaves the directory as it found it.
C13_TrainingRunRefused ==
    (env.dir0.exists /\ env.dir0.entries # {} /\ ~args.do_overwrite_output_dir
        /\ args.do_train) =>
        /\ pc \in {"main", "raised"}
        /\ pc = "raised" => exc = "ValueError"
        /\ work = {}
        /\ output_dir = env.dir0

C13_Witness ==
    /\ pc = "raised"
    /\ exc = "ValueError"
    /\ env.dir0.entries = {"notes.txt"}
    /\ args.do_train
    /\ ~args.do_overwrite_output_dir
    /\ work = {}

\* C14: once the device is set up on a machine without an accelerator, the
\* device is the CPU and n_gpu is 0; and a device that is an accelerator
\* means that one is available and to_cpu is false.
C14_CpuWithoutAccelerator ==
    "device" \in work =>
        /\ env.device_count = 0 => (args.device.type = "cpu" /\ args.n_gpu = 0)
        /\ args.device.type = "cuda" => (env.device_count > 0 /\ ~args.to_cpu)

\* ------------------------------------------------------- start-up's claims
\* the launch is distributed with several processes
SeveralProcesses == Cardinality(DOMAIN procs) > 1
\* the processes inside get_BertAbs_model
Initializing == {r \in DOMAIN procs : procs[r].pc = "initializing"}
\* a process that has not got past the barrier of line 617
HeldBack(r) == procs[r].pc \in {"device_setup", "setup_done", "waiting", "raised"}

NonCoordinating == args.is_distributed /\ args.local_rank # 0

\* C16: a process of a distributed run other than the one of local rank 0
\* never has a summary writer, never writes into the output directory (its
\* call of save_model_checkpoints returns at once), and is never stopped by
\* the monitoring block; whoever wrote a part of a checkpoint is rank 0 or
\* not distributed, and whoever has a summary writer is a monitoring process.
C16_OnlyCoordinatorMonitorsAndSaves ==
    /\ NonCoordinating =>
          /\ tb_writer = NoWriter
          /\ output_dir = env.dir0
          /\ pc \notin {"save_model", "save_tokenizer", "save_args"}
          /\ exc \notin {"SinkError", "IndexError"}
    /\ tb_writer # NoWriter => (~args.is_distributed \/ args.local_rank = 0)
    /\ output_dir # env.dir0 =>
          (~args.is_distributed \/ (args.local_rank = 0 /\ env.node_rank = 0))

C16_Witness ==
    /\ NonCoordinating
    /\ pc = "do_evaluate"
    /\ save_calls = 1
    /\ optimizer._step > 1
    /\ args.logging_steps = 1
    /\ output_dir = env.dir0

IsLoss(e) == e.tag = "loss"
IsRateEncoder(e) == e.tag = "learning_rate_encoder"
IsRateDecoder(e) == e.tag = "learning_rate_decoder"
IsSummary(e) == e.tag = "summary"
\* the entries of the writer under one tag are those of the steps N, 2N, ...
\* up to global_step, one each, in this order
AtMultiples(Tag(_), N) ==
    LET found == SelectSeq(tb_writer.entries, Tag)
    IN  /\ Len(found) = global_step \div N
        /\ \A i \in 1..Len(found) : found[i].step = i * N

\* C17: while train runs and after it returned, a monitoring process with
\* logging_steps = N > 0 has written the two learning rates and the loss for
\* exactly the steps N, 2N, ... reached so far, once each; it has written a
\* sample summary for each of these steps if evaluate_during_training is set
\* and the run is not distributed, and none otherwise.  With N <= 0 nothing
\* is written.
C17_EmissionsAtMultiples ==
    (args.is_monitoring_process /\ pc \notin {"train", "raised"}) =>
        IF args.logging_steps > 0
        THEN /\ AtMultiples(IsLoss, args.logging_steps)
             /\ AtMultiples(IsRateEncoder, args.logging_steps)
             /\ AtMultiples(IsRateDecoder, args.logging_steps)
             /\ IF args.evaluate_during_training /\ ~args.is_distributed
                THEN AtMultiples(IsSummary, args.logging_steps)
                ELSE SelectSeq(tb_writer.entries, IsSummary) = << >>
        ELSE tb_writer.entries = << >>

C17_Witness ==
    /\ args.is_monitoring_process
    /\ args.logging_steps = 2
    /\ args.evaluate_during_training
    /\ ~args.is_distributed
    /\ pc = "returned"
    /\ global_step = 5
    /\ Len(SelectSeq(tb_writer.entries, IsSummary)) = 2

\* C18: a call of the summary writer that raised has not ended train.
C18_SinkFailureNonFatal ==
    tb_writer.state = "failed" => pc # "raised"

\* ------------------------------------------------------- summarize's claims
\* the pairs of candidates of the row in hand with the same cumulative
\* log-score, the first shorter than the second
EqualScorePairs ==
    {p \in (DOMAIN beam.hyps) \X (DOMAIN beam.hyps) :
        /\ beam.hyps[p[1]].score = beam.hyps[p[2]].score
        /\ beam.hyps[p[1]].length < beam.hyps[p[2]].length}

\* C19 as stated: of two candidates with the same cumulative log-score the
\* shorter one has the higher final score.
C19_AsStated ==
    \A p \in EqualScorePairs : ScoreLess(beam.scores[p[2]], beam.scores[p[1]])

\* C19: of two candidates with the same cumulative log-score s <= 0 the
\* shorter one has the lower final score when s < 0, and both have the final
\* score 0 when s = 0; the shorter one never has the higher.
C19_ShorterIsNotHigher ==
    \A p \in EqualScorePairs :
        /\ ~ScoreLess(beam.scores[p[2]], beam.scores[p[1]])
        /\ beam.hyps[p[1]].score < 0 => ScoreLess(beam.scores[p[1]], beam.scores[p[2]])
        /\ beam.hyps[p[1]].score = 0 => ~ScoreLess(beam.scores[p[1]], beam.scores[p[2]])

C19_Witness ==
    /\ pc = "scored"
    /\ beam.alpha = alpha_summarize
    /\ \E p \in EqualScorePairs : beam.hyps[p[1]].score < 0

\* the entry summarize appends in this step, counted from 1 in the row
Selected == beam'.summaries[Len(beam'.summaries)].idx + 1

C20_Inv ==
    /\ Len(beam.summaries) = beam.b
    /\ \A i \in DOMAIN beam.summaries : beam.summaries[i].example = i - 1
    /\ pc = "returned" => Len(beam.summaries) = beam.batch_size

C20_Act ==
    pc = "scored" =>
        /\ Len(beam'.summaries) = Len(beam.summaries) + 1
        /\ SubSeq(beam'.summaries, 1, Len(beam.summaries)) = beam.summaries
        /\ Selected \in DOMAIN beam.scores
        /\ \A j \in DOMAIN beam.scores : ~ScoreLess(beam.scores[Selected], beam.scores[j])
        /\ \A j \in 1..(Selected - 1) : ScoreLess(beam.scores[j], beam.scores[Selected])

\* C20: summarize holds one entry for each example looked at, the i-th for
\* example i, and returns with one entry for each source of the batch; the
\* entry it appends for a row is an index whose score no score of the row
\* exceeds, with every score before it in the row lower.
C20_FirstBestPerExample == []C20_Inv /\ [][C20_Act]_vars

C20_Witness ==
    /\ pc = "returned"
    /\ beam.batch_size = MaxBeamBatch
    /\ Len(beam.summaries) = MaxBeamBatch
    /\ beam.summaries[1].idx = MaxBeams - 1
    /\ beam.summaries[MaxBeamBatch].idx = 0

\* ------------------------------------------- train's counters and its return
\* the stack a learning-rate tag of the summary writer stands for
StackOfTag == [learning_rate_encoder |-> "encoder", learning_rate_decoder |-> "decoder"]

\* C21: in every state of train between two loop bodies global_step equals
\* the optimizer's _step; once a step has been taken, current_learning_rates
\* has an entry for both stacks; and every learning rate the summary writer
\* holds under step g is the schedule's rate of its stack for counter value g.
C21_CountersAgree ==
    /\ global_step = optimizer._step
    /\ global_step >= 1 => DOMAIN optimizer.current_learning_rates = Stacks
    /\ \A i \in DOMAIN tb_writer.entries :
          LET e == tb_writer.entries[i]
          IN  e.tag \in DOMAIN StackOfTag =>
                 /\ e.step >= 1
                 /\ e.step <= global_step
                 /\ FracEq(e.value,
                           ScheduleSq(learning_rates[StackOfTag[e.tag]],
                                      warmup_steps[StackOfTag[e.tag]], e.step))

C21_Witness ==
    /\ pc = "step_loop"
    /\ args.gradient_accumulation_steps = 2
    /\ args.logging_steps = 1
    /\ global_step = 3
    /\ step = 6
    /\ Len(SelectSeq(tb_writer.entries, IsRateDecoder)) = 3

\* C22: when train is at its return statement in a run with at least one
\* batch per epoch and either max_steps > 0 or num_train_epochs >= 1 as
\* given, global_step >= 1.
C22_StepsBeforeReturn ==
    (pc = "return" /\ n_batches >= 1
        /\ (args.max_steps > 0 \/ args.num_train_epochs >= 1)) =>
        global_step >= 1

\* ------------------------------------------------- the start-up never blocks
C23_Calls ==
    \A r \in DOMAIN procs :
        /\ procs[r].barrier_calls <= 1
        /\ r = -1 => procs[r].barrier_calls = 0
        /\ (r # -1 /\ procs[r].pc \in {"model_to", "ready"}) => procs[r].barrier_calls = 1

\* C23: on a machine with accelerators, no process calls the barrier more
\* than once, the process of a plain run never calls it, a process of a
\* distributed run that is at model.to has called it once, and every process
\* of the launch eventually is at model.to(device).
C23_EveryProcessPassesBarrier ==
    env.device_count > 0 =>
        /\ []C23_Calls
        /\ \A r \in AllRanks : <>(r \in DOMAIN procs => procs[r].pc = "model_to")

====
